---- MODULE Spec2Model ----
(***************************************************************************)
(* CCMpredPy: the pseudo-likelihood objective and its padded parameter     *)
(* codec (ccmpred/objfun/pll), the contrastive-divergence objective        *)
(* (ccmpred/objfun/cd) and the gap-column trimming (ccmpred/gaps).         *)
(*                                                                         *)
(* numpy arrays are functions over 0..n-1, nested per axis; a flat vector  *)
(* is a function over 0..n-1.  A float64 of the pseudo-likelihood part is  *)
(* a triple <<kind, n, col>>:                                              *)
(*   <<"real", n, <<>>>>   the number n                                    *)
(*   <<"nan", 0, <<>>>>, <<"pinf", 0, <<>>>>, <<"ninf", 0, <<>>>>          *)
(*   <<"vc", n, col>>      log(n) - (1/20) * sum of log(col[a]), the       *)
(*                         finite centering value of a column whose        *)
(*                         pseudo-frequencies are proportional to col      *)
(* Counts of the contrastive-divergence part are integers.                 *)
(***************************************************************************)
EXTENDS Integers, Sequences, FiniteSets, TLC

VARIABLES
    pc,            \* position of the driver within the scenario of a specification
    err,           \* the exception the last call raised, "" when it returned
    msa,           \* the alignment, [row -> [column -> symbol 0..20]]
    weights,       \* sequence weights, [row -> Nat]
    raw,           \* a CCMRaw: [ncol, x_single, x_pair]
    x,             \* the packed parameter vector a pll classmethod returned
    res,           \* the PseudoLikelihood instance a classmethod returned
    fin,           \* what finalize(x) returned: [x_single, x_pair]
    sizes,         \* the lengths the pll constructor and the two codec functions use
    ccm,           \* the CCM object a ContrastiveDivergence is built from
    req,           \* the other arguments of ContrastiveDivergence(...)
    cd,            \* the ContrastiveDivergence instance
    ret,           \* what the last evaluate(x) returned
    out,           \* the lines printed and the calls made to the Gibbs sampler so far
    pct,           \* max_gap_percentage
    trimmed,       \* what remove_gapped_positions returned: [msa, gapped_positions]
    back           \* what backinsert_gapped_positions returned: [x_single, x_pair]

vars == <<pc, err, msa, weights, raw, x, res, fin, sizes, ccm, req, cd, ret, out,
          pct, trimmed, back>>

pllVars == <<msa, weights, raw, x, res, fin>>
layVars == <<sizes>>
cdVars == <<ccm, req, cd, ret, out>>
gapVars == <<pct, trimmed, back>>

\* ------------------------------------------------------------------ bounds

MaxRows == 10
MaxCols == 2
MaxRawRows == 2
MaxLayoutRows == 3
MaxLayoutCols == 9
MaxGapRows == 2
MaxGapCols == 3
MaxCdRows == 2
MaxCdCols == 2
MaxGibbs == 2

\* ------------------------------------------------------- program constants

NAminoAcids == 20
NStates == 21
NAlphaPad == 32
GAP == 20
MinNeffSample == 10

\* ------------------------------------------------------------------ floats

Real(n) == <<"real", n, <<>>>>
Zero == Real(0)
NaN == <<"nan", 0, <<>>>>
PInf == <<"pinf", 0, <<>>>>
NInf == <<"ninf", 0, <<>>>>
None == <<>>

\* the variables of the parts a scenario does not use
LayIdle == sizes = None
CdIdle == ccm = None /\ req = None /\ cd = None /\ ret = None /\ out = <<>>
GapIdle == pct = 0 /\ trimmed = None /\ back = None
PllIdle == raw = None /\ x = None /\ res = None /\ fin = None

IsFinite(v) == v[1] \in {"real", "vc"}

Len0(f) == Cardinality(DOMAIN f)

RECURSIVE SumTo(_, _)
SumTo(f, n) == IF n = 0 THEN 0 ELSE f[n - 1] + SumTo(f, n - 1)

RECURSIVE Gcd(_, _)
Gcd(a, b) == IF b = 0 THEN a ELSE Gcd(b, a % b)

RECURSIVE GcdTo(_, _)
GcdTo(f, n) == IF n = 0 THEN 0 ELSE Gcd(f[n - 1], GcdTo(f, n - 1))

NRows(m) == Len0(m)
NCols(m) == Len0(m[0])

\* ------------------------------------------------------------ numpy helpers

\* v[lo:hi]
slice(v, lo, hi) == [k \in 0..(hi - lo - 1) |-> v[lo + k]]

\* a.reshape(-1) of a 2-d and of a 4-d array (C order)
ravel2(t) ==
    LET d1 == Len0(t[0])
    IN  [k \in 0..(Len0(t) * d1 - 1) |-> t[k \div d1][k % d1]]

ravel4(t) ==
    LET d0 == Len0(t)
        d1 == Len0(t[0])
        d2 == Len0(t[0][0])
        d3 == Len0(t[0][0][0])
    IN  [k \in 0..(d0 * d1 * d2 * d3 - 1) |->
            t[k \div (d1 * d2 * d3)][(k \div (d2 * d3)) % d1][(k \div d3) % d2][k % d3]]

\* v.reshape((d0, d1)) and v.reshape((d0, d1, d2, d3))

reshape2(v, d0, d1) ==
    [p \in 0..(d0 - 1) |-> [q \in 0..(d1 - 1) |-> v[p * d1 + q]]]

reshape4(v, d0, d1, d2, d3) ==
    [p \in 0..(d0 - 1) |-> [q \in 0..(d1 - 1) |-> [r \in 0..(d2 - 1) |->
        [s \in 0..(d3 - 1) |-> v[((p * d1 + q) * d2 + r) * d3 + s]]]]]

\* np.transpose(t, (3, 1, 2, 0)): result[p][q][r][s] = t[s][q][r][p]
transpose_3120(t) ==
    [p \in 0..(Len0(t[0][0][0]) - 1) |-> [q \in 0..(Len0(t[0]) - 1) |->
        [r \in 0..(Len0(t[0][0]) - 1) |-> [s \in 0..(Len0(t) - 1) |-> t[s][q][r][p]]]]]

\* np.transpose(t, (3, 0, 2, 1)): result[p][q][r][s] = t[q][s][r][p]
transpose_3021(t) ==
    [p \in 0..(Len0(t[0][0][0]) - 1) |-> [q \in 0..(Len0(t) - 1) |->
        [r \in 0..(Len0(t[0][0]) - 1) |-> [s \in 0..(Len0(t[0]) - 1) |-> t[q][s][r][p]]]]]

\* ------------------------------------------------- pll: the padded codec

\* nsingle + 32 - (nsingle % 32), as written in __init__, in linear_to_structured
\* and in structured_to_linear
init_nsingle_padded(nsingle) == nsingle + NAlphaPad - (nsingle % NAlphaPad)

lts_nsingle_padded(nsingle) == nsingle + NAlphaPad - (nsingle % NAlphaPad)

\* nsingle rounded up to a multiple of 32, unchanged when it is one already
stl_nsingle_padded_roundup(nsingle) ==
    ((nsingle + NAlphaPad - 1) \div NAlphaPad) * NAlphaPad

stl_nsingle_padded(nsingle) == nsingle + NAlphaPad - (nsingle % NAlphaPad)

stl_nvar(ncol) ==
    stl_nsingle_padded(ncol * NAminoAcids) + ncol * ncol * NStates * NAlphaPad

\* the axes (3, 0, 2, 1) in place of (3, 1, 2, 0)
stl_transpose_3021(x_pair) == transpose_3021(x_pair)

stl_transpose(x_pair) == transpose_3120(x_pair)

lts_transpose(t) == transpose_3120(t)

structured_to_linear(x_single, x_pair) ==
    LET ncol == Len0(x_single)
        nsingle == ncol * NAminoAcids
        nsingle_padded == stl_nsingle_padded(nsingle)
        nvar == stl_nvar(ncol)
        t == stl_transpose(x_pair)
        out_x_pair ==
            [b \in 0..(NStates - 1) |-> [j \in 0..(ncol - 1) |->
                [a \in 0..(NAlphaPad - 1) |-> [i \in 0..(ncol - 1) |->
                    IF a < NStates THEN t[b][j][a][i] ELSE Zero]]]]
        flat_single == ravel2(x_single)
        flat_pair == ravel4(out_x_pair)
    IN  [k \in 0..(nvar - 1) |->
            IF k < nsingle THEN flat_single[k]
            ELSE IF k >= nsingle_padded THEN flat_pair[k - nsingle_padded]
            ELSE Zero]

\* whether the two reshapes of linear_to_structured succeed on a vector of
\* length len: x[:nsingle] must hold ncol * 20 cells and x[nsingle_padded:]
\* 21 * ncol * 32 * ncol
lts_fits_len(len, ncol) ==
    /\ len >= ncol * NAminoAcids
    /\ len >= lts_nsingle_padded(ncol * NAminoAcids)
    /\ len - lts_nsingle_padded(ncol * NAminoAcids)
           = NStates * ncol * NAlphaPad * ncol

lts_fits(v, ncol) == lts_fits_len(Len0(v), ncol)

linear_to_structured(v, ncol, clip) ==
    LET nsingle == ncol * NAminoAcids
        nsingle_padded == lts_nsingle_padded(nsingle)
        x_single == reshape2(slice(v, 0, nsingle), ncol, NAminoAcids)
        x_pair == lts_transpose(reshape4(slice(v, nsingle_padded, Len0(v)),
                                         NStates, ncol, NAlphaPad, ncol))
    IN  [x_single |-> x_single,
         x_pair |-> IF clip
                    THEN [i \in 0..(ncol - 1) |-> [j \in 0..(ncol - 1) |->
                            [a \in 0..(NStates - 1) |-> [b \in 0..(NStates - 1) |->
                                x_pair[i][j][a][b]]]]]
                    ELSE x_pair]

\* ------------------------------------------------------- pll: centering

\* ccmpred.counts.single_counts(msa, weights): the weighted count of symbol a
\* in column i
single_counts(m, w) ==
    [i \in 0..(NCols(m) - 1) |-> [a \in 0..(NStates - 1) |->
        SumTo([n \in 0..(NRows(m) - 1) |-> IF m[n][i] = a THEN w[n] ELSE 0], NRows(m))]]

\* float64 division of non-negative numbers n / d as an extended rational
\* <<kind, numerator, denominator>>: 0/0 is nan, n/0 is +inf (numpy warns, it
\* does not raise)
fdiv(n, d) ==
    IF d # 0 THEN <<"q", n, d>>
    ELSE IF n = 0 THEN <<"nan", 0, 1>> ELSE <<"pinf", 0, 1>>

\* (1 - tau) * p + tau * q with tau = 0.1, i.e. (9 * p + q) / 10
tau_mix(p, q) ==
    IF p[1] = "nan" \/ q[1] = "nan" THEN <<"nan", 0, 1>>
    ELSE IF p[1] = "pinf" \/ q[1] = "pinf" THEN <<"pinf", 0, 1>>
    ELSE <<"q", 9 * p[2] * q[3] + q[2] * p[3], 10 * p[3] * q[3]>>

\* the kind of np.log(p): log(0) is -inf
log_kind(p) ==
    IF p[1] = "q" THEN (IF p[2] = 0 THEN "ninf" ELSE "fin") ELSE p[1]

\* the kind of np.sum of logs whose kinds are ks
logsum_kind(ks) ==
    IF "nan" \in ks \/ ({"pinf", "ninf"} \subseteq ks) THEN "nan"
    ELSE IF "ninf" \in ks THEN "ninf"
    ELSE IF "pinf" \in ks THEN "pinf"
    ELSE "fin"

\* log(p) - logsum / 20 for one cell: lk the kind of log(p), sk of the logsum,
\* n the numerator of p and col the numerators of the column over its common
\* denominator (which cancels in the difference)
center_value(lk, sk, n, col) ==
    IF lk = "nan" \/ sk = "nan" THEN NaN
    ELSE IF lk = "fin" /\ sk = "fin"
         THEN LET g == GcdTo(col, NAminoAcids)
              IN  <<"vc", n \div g, [a \in 0..(NAminoAcids - 1) |-> col[a] \div g]>>
    ELSE IF lk = "fin" THEN (IF sk = "ninf" THEN PInf ELSE NInf)
    ELSE IF sk = "fin" THEN (IF lk = "pinf" THEN PInf ELSE NInf)
    ELSE IF lk = sk THEN NaN
    ELSE IF lk = "pinf" THEN PInf ELSE NInf

\* the divisor of the per-column frequencies: the non-gap weight of column i
nongap_weight(wsum, counts, i) == wsum - counts[i][GAP]

\* v_center of calculate_centering, [column -> [amino acid -> float]]
v_center(m, w) ==
    LET nrow == NRows(m)
        ncol == NCols(m)
        wsum == SumTo(w, nrow)
        counts == single_counts(m, w)
        aa_global_frac ==
            [a \in 0..(NStates - 1) |->
                fdiv(SumTo([i \in 0..(ncol - 1) |-> counts[i][a]], ncol), ncol * wsum)]
        aafrac ==
            [i \in 0..(ncol - 1) |-> [a \in 0..(NStates - 1) |->
                IF a = GAP THEN <<"q", 0, 1>>
                ELSE fdiv(counts[i][a], nongap_weight(wsum, counts, i))]]
        \* every rational cell of column i has the denominator
        \* 10 * nongap_weight * ncol * wsum
        aafrac_pseudo ==
            [i \in 0..(ncol - 1) |-> [a \in 0..(NAminoAcids - 1) |->
                tau_mix(aafrac[i][a], aa_global_frac[a])]]
        aafrac_logsum ==
            [i \in 0..(ncol - 1) |->
                logsum_kind({log_kind(aafrac_pseudo[i][a]) : a \in 0..(NAminoAcids - 1)})]
    IN  [i \in 0..(ncol - 1) |-> [a \in 0..(NAminoAcids - 1) |->
            center_value(log_kind(aafrac_pseudo[i][a]), aafrac_logsum[i],
                         aafrac_pseudo[i][a][2],
                         [b \in 0..(NAminoAcids - 1) |-> aafrac_pseudo[i][b][2]])]]

\* return v_center.T.reshape((ncol * 20,))
calculate_centering(m, w) ==
    LET ncol == NCols(m)
        vc == v_center(m, w)
    IN  [k \in 0..(ncol * NAminoAcids - 1) |-> vc[k % ncol][k \div ncol]]

\* ------------------------------------------------ pll: PseudoLikelihood

\* the default lambda_pair, (msa.shape[1] - 1) * 0.2, as <<numerator, denominator>>
default_lambda_pair(m) == <<NCols(m) - 1, 5>>

default_lambda_single == <<10, 1>>

\* PseudoLikelihood.__init__: the fields of the new instance (msa and weights
\* are references to the caller's arrays; g and g2 are kept by their lengths)
pll_new(m, w, lambda_single, lambda_pair) ==
    LET nrow == NRows(m)
        ncol == NCols(m)
        nsingle == ncol * NAminoAcids
        nsingle_padded == init_nsingle_padded(nsingle)
    IN  [nrow |-> nrow, ncol |-> ncol,
         lambda_single |-> lambda_single, lambda_pair |-> lambda_pair,
         nsingle |-> nsingle,
         nsingle_padded |-> nsingle_padded,
         nvar |-> nsingle_padded + ncol * ncol * NStates * NAlphaPad,
         v_centering |-> calculate_centering(m, w),
         g_len |-> nsingle_padded + ncol * ncol * NStates * NAlphaPad,
         g2_len |-> ncol * ncol * NStates * NAlphaPad]

\* a test that lets a raw with more columns than the alignment through
columns_mismatch_lax(m, r) == NCols(m) > r.ncol

\* the test of init_from_raw that raises
columns_mismatch(m, r) == NCols(m) # r.ncol

\* PseudoLikelihood.init_from_default(msa, weights)
InitFromDefault ==
    /\ pc = "start"
    /\ \E o \in {pll_new(msa, weights, default_lambda_single, default_lambda_pair(msa))} :
           /\ x' = [k \in 0..(o.nvar - 1) |->
                       IF k < o.nsingle THEN o.v_centering[k] ELSE Zero]
           /\ res' = o
    /\ pc' = "ready"
    /\ err' = ""
    /\ UNCHANGED <<msa, weights, raw, fin, layVars, cdVars, gapVars>>

\* PseudoLikelihood.finalize(x): the fields of the CCMRaw it returns
Finalize ==
    /\ pc = "ready"
    /\ IF lts_fits(x, res.ncol)
       THEN /\ fin' = linear_to_structured(x, res.ncol, TRUE)
            /\ err' = ""
            /\ pc' = "finalized"
       ELSE /\ fin' = None
            /\ err' = "ValueError"
            /\ pc' = "raised"
    /\ UNCHANGED <<msa, weights, raw, x, res, layVars, cdVars, gapVars>>

\* a CCMRaw with ncol columns whose cells are pairwise distinct numbers
mk_raw(ncol, seed) ==
    [ncol |-> ncol,
     x_single |-> [i \in 0..(ncol - 1) |-> [a \in 0..(NAminoAcids - 1) |->
                      Real(seed + 1 + i * NAminoAcids + a)]],
     x_pair |-> [i \in 0..(ncol - 1) |-> [j \in 0..(ncol - 1) |->
                    [a \in 0..(NStates - 1) |-> [b \in 0..(NStates - 1) |->
                        Real(0 - (seed + 1 + ((i * ncol + j) * NStates + a) * NStates + b))]]]]]

Seeds == {0, 7}

RawInputs == {mk_raw(ncol, seed) : ncol \in 1..MaxCols, seed \in Seeds}

\* PseudoLikelihood.init_from_raw(msa, weights, raw)
InitFromRaw ==
    /\ pc = "start"
    /\ \E r \in RawInputs :
        \E o \in {pll_new(msa, weights, default_lambda_single, default_lambda_pair(msa))},
           flat \in {ravel2(r.x_single)} :
            /\ raw' = r
            /\ IF columns_mismatch(msa, r)
               THEN /\ err' = "Mismatching number of columns"
                    /\ x' = None
                    /\ res' = None
                    /\ pc' = "raised"
               ELSE IF Len0(flat) # Len0(o.v_centering)
               THEN \* res.v_centering[:] = ... cannot broadcast
                    /\ err' = "ValueError"
                    /\ x' = None
                    /\ res' = None
                    /\ pc' = "raised"
               ELSE /\ err' = ""
                    /\ x' = structured_to_linear(r.x_single, r.x_pair)
                    /\ res' = [o EXCEPT !.v_centering = flat]
                    /\ pc' = "ready"
    /\ UNCHANGED <<msa, weights, fin, layVars, cdVars, gapVars>>

\* ------------------------------------------------------- pll: scenarios

\* an alignment of nrow rows whose column i starts at base[i] and advances by
\* step symbols per row
mk_msa(nrow, base, step) ==
    [n \in 0..(nrow - 1) |-> [i \in 0..(Len0(base) - 1) |-> (base[i] + n * step) % NStates]]

BaseSymbols == {0, 1, GAP}

Steps == {0, 1, 2}

MsaInputs ==
    {mk_msa(nrow, base, step) :
        nrow \in 1..MaxRows,
        base \in UNION {[0..(ncol - 1) -> BaseSymbols] : ncol \in 1..MaxCols},
        step \in Steps}

\* positive sequence weights: all 1, or alternating 1 and 2
WeightInputs(nrow) ==
    {[n \in 0..(nrow - 1) |-> 1], [n \in 0..(nrow - 1) |-> 1 + (n % 2)]}

InitDefault ==
    /\ pc = "start"
    /\ err = ""
    /\ msa \in MsaInputs
    /\ weights \in WeightInputs(NRows(msa))
    /\ PllIdle /\ LayIdle /\ CdIdle /\ GapIdle

NextDefault == InitFromDefault \/ Finalize

SpecDefault == InitDefault /\ [][NextDefault]_vars

\* alignments of the raw scenario: up to MaxRawRows rows of one repeated row
RawMsaInputs ==
    {mk_msa(nrow, base, 0) :
        nrow \in 1..MaxRawRows,
        base \in UNION {[0..(ncol - 1) -> BaseSymbols] : ncol \in 1..MaxCols}}

InitRaw ==
    /\ pc = "start"
    /\ err = ""
    /\ msa \in RawMsaInputs
    /\ weights = [n \in 0..(NRows(msa) - 1) |-> 1]
    /\ PllIdle /\ LayIdle /\ CdIdle /\ GapIdle

NextRaw == InitFromRaw \/ Finalize

SpecRaw == InitRaw /\ [][NextRaw]_vars

\* ------------------------------------------------------------- properties: pll

\* C1: structured_to_linear followed by linear_to_structured(., L, clip=True)
\* returns exactly the x_single and x_pair that were packed, at every index
\* (i, a) and (i, j, a, b).
RoundTripPadded ==
    pc = "finalized" =>
        /\ fin.x_single = raw.x_single
        /\ fin.x_pair = raw.x_pair

\* a round trip of a two-column parameter set has happened
RoundTripPaddedWitness ==
    /\ pc = "finalized"
    /\ raw.ncol = 2
    /\ fin.x_pair[0][1][3][5] # fin.x_pair[1][0][3][5]

\* C2: init_from_raw raises its column-mismatch exception, before anything is
\* packed or returned, exactly when msa.shape[1] # raw.ncol; otherwise it
\* returns x and the instance without error.
InitFromRawFailsFast ==
    pc # "start" =>
        /\ NCols(msa) # raw.ncol =>
              /\ pc = "raised"
              /\ err = "Mismatching number of columns"
              /\ x = None
              /\ res = None
        /\ NCols(msa) = raw.ncol =>
              /\ pc \in {"ready", "finalized"}
              /\ err = ""
              /\ Len0(x) = res.nvar
              /\ res.ncol = raw.ncol

\* init_from_raw has raised on a raw with more columns than the alignment
InitFromRawFailsFastWitness ==
    /\ pc = "raised"
    /\ NCols(msa) < raw.ncol
    /\ err = "Mismatching number of columns"

\* C8: when some column has zero non-gap weight, every centering value that
\* calculate_centering returned is a defined, finite number.
CenteringDefinedOnDegenerateColumns ==
    (/\ pc = "ready"
     /\ \E i \in 0..(NCols(msa) - 1) :
            nongap_weight(SumTo(weights, NRows(msa)), single_counts(msa, weights), i) = 0)
    => \A k \in DOMAIN res.v_centering : IsFinite(res.v_centering[k])

\* C9: unpacking the x of init_from_default gives x_single[i, a] equal to the
\* centering value of column i and amino acid a; every other cell of x is 0.
CenteringLandsOnParameter ==
    pc = "finalized" =>
        /\ \A i \in 0..(res.ncol - 1) : \A a \in 0..(NAminoAcids - 1) :
              fin.x_single[i][a] = v_center(msa, weights)[i][a]
        /\ \A k \in res.nsingle..(res.nvar - 1) : x[k] = Zero

\* ------------------------------------------------- pll: the packed lengths

\* PseudoLikelihood(msa, weights, lambda_single, lambda_pair)
Construct ==
    /\ pc = "start"
    /\ \E o \in {pll_new(msa, weights, default_lambda_single, default_lambda_pair(msa))} :
           res' = o
    /\ pc' = "constructed"
    /\ UNCHANGED <<err, msa, weights, raw, x, fin, layVars, cdVars, gapVars>>

\* the length of the vector structured_to_linear returns for the parameters
\* of an alignment of res.ncol columns
PackLength ==
    /\ pc = "constructed"
    /\ sizes' = [stl_len |-> stl_nvar(res.ncol)]
    /\ pc' = "packed"
    /\ UNCHANGED <<err, pllVars, cdVars, gapVars>>

\* where linear_to_structured cuts that vector, and whether its reshapes fit
UnpackLength ==
    /\ pc = "packed"
    /\ sizes' = [stl_len |-> sizes.stl_len,
                 lts_nsingle_padded |-> lts_nsingle_padded(res.ncol * NAminoAcids),
                 lts_ok |-> lts_fits_len(sizes.stl_len, res.ncol)]
    /\ pc' = "unpacked"
    /\ UNCHANGED <<err, pllVars, cdVars, gapVars>>

InitLayout ==
    /\ pc = "start"
    /\ err = ""
    /\ \E nrow \in 1..MaxLayoutRows, ncol \in 1..MaxLayoutCols :
          /\ msa = mk_msa(nrow, [i \in 0..(ncol - 1) |-> 0], 1)
          /\ weights = [n \in 0..(nrow - 1) |-> 1]
    /\ PllIdle /\ LayIdle /\ CdIdle /\ GapIdle

NextLayout == Construct \/ PackLength \/ UnpackLength

SpecLayout == InitLayout /\ [][NextLayout]_vars

\* --------------------------------------------------- properties: packed length

\* C6 (as stated): nsingle_padded is the least multiple of 32 that is >= L*20,
\* and nvar = nsingle_padded + L*L*21*32 in the constructor, in
\* structured_to_linear and in linear_to_structured.
PaddedIsLeastMultipleAtLeast ==
    pc = "unpacked" =>
        LET L == NCols(msa)
            P == res.nsingle_padded
        IN  /\ P % 32 = 0 /\ P >= L * 20 /\ P - 32 < L * 20
            /\ res.nvar = P + L * L * 21 * 32
            /\ sizes.stl_len = res.nvar
            /\ sizes.lts_nsingle_padded = P

\* C6 (amended): nsingle_padded is the least multiple of 32 strictly greater
\* than L*20 (a full extra block of 32 when L*20 is itself a multiple of 32),
\* and the packed length nsingle_padded + L*L*21*32 depends on L alone and is
\* the same in the constructor, in structured_to_linear and in
\* linear_to_structured.
PaddedIsNextMultipleAbove ==
    pc = "unpacked" =>
        LET L == NCols(msa)
            P == res.nsingle_padded
        IN  /\ P % 32 = 0 /\ P > L * 20 /\ P - 32 <= L * 20
            /\ res.nvar = ((L * 20) \div 32 + 1) * 32 + L * L * 21 * 32
            /\ res.nvar = P + L * L * 21 * 32
            /\ res.g_len = res.nvar
            /\ sizes.stl_len = res.nvar
            /\ sizes.lts_nsingle_padded = P
            /\ sizes.lts_ok

\* the lengths of an alignment whose L*20 is a multiple of 32 have been computed
PaddedIsNextMultipleAboveWitness ==
    /\ pc = "unpacked"
    /\ NCols(msa) = 8
    /\ res.nsingle_padded = 192
    /\ sizes.lts_ok

\* ------------------------------------------------------------------- gaps

\* (msa == 20).sum(0)[i]
msa_gap_count(m, i) ==
    SumTo([n \in 0..(NRows(m) - 1) |-> IF m[n][i] = GAP THEN 1 ELSE 0], NRows(m))

\* msa_gap_counts > max_gap_count, which leaves out the columns with exactly
\* max_gap_count gaps
is_gapped_strict(count, percentage, nrow) == count * 100 > percentage * nrow

\* msa_gap_counts < max_gap_count and msa_gap_counts >= max_gap_count, with
\* max_gap_count = max_gap_percentage / 100.0 * msa.shape[0], compared exactly
is_ungapped(count, percentage, nrow) == count * 100 < percentage * nrow

is_gapped(count, percentage, nrow) == count * 100 >= percentage * nrow

\* np.where(mask)[0] over the columns 0..ncol-1: the ascending indices, as a sequence
RECURSIVE np_where(_, _)
np_where(mask, ncol) ==
    IF ncol = 0 THEN <<>>
    ELSE IF mask[ncol - 1] THEN Append(np_where(mask, ncol - 1), ncol - 1)
    ELSE np_where(mask, ncol - 1)

remove_gapped_positions(m, max_gap_percentage) ==
    IF max_gap_percentage >= 100 THEN [msa |-> m, gapped_positions |-> <<>>]
    ELSE
        LET nrow == NRows(m)
            ncol == NCols(m)
            ungapped_positions ==
                np_where([i \in 0..(ncol - 1) |->
                            is_ungapped(msa_gap_count(m, i), max_gap_percentage, nrow)], ncol)
            gapped_positions ==
                np_where([i \in 0..(ncol - 1) |->
                            is_gapped(msa_gap_count(m, i), max_gap_percentage, nrow)], ncol)
        IN  [msa |-> [n \in 0..(nrow - 1) |->
                        [k \in 0..(Len(ungapped_positions) - 1) |->
                            m[n][ungapped_positions[k + 1]]]],
             gapped_positions |-> gapped_positions]

\* np.insert(arr, position, [0], axis=0): zero is the inserted slab, the shape
\* of one entry of axis 0 filled with 0
np_insert_axis0(arr, position, zero) ==
    [k \in 0..Len0(arr) |->
        IF k < position THEN arr[k] ELSE IF k = position THEN zero ELSE arr[k - 1]]

\* np.insert(arr, position, [0], axis=1)
np_insert_axis1(arr, position, zero) ==
    [r \in 0..(Len0(arr) - 1) |-> np_insert_axis0(arr[r], position, zero)]

zero_row == [a \in 0..(NAminoAcids - 1) |-> 0]

zero_block == [a \in 0..(NStates - 1) |-> [b \in 0..(NStates - 1) |-> 0]]

\* the loop of backinsert_gapped_positions from its k-th position on; np.insert
\* raises IndexError for a position beyond the end of the axis
RECURSIVE backinsert_from(_, _, _, _)
backinsert_from(x_single, x_pair, gapped_positions, k) ==
    IF k > Len(gapped_positions)
    THEN [error |-> "", x_single |-> x_single, x_pair |-> x_pair]
    ELSE IF gapped_positions[k] > Len0(x_single)
    THEN [error |-> "IndexError", x_single |-> None, x_pair |-> None]
    ELSE LET position == gapped_positions[k]
             ncur == Len0(x_single)
             rows == np_insert_axis0(x_pair, position, [j \in 0..(ncur - 1) |-> zero_block])
         IN  backinsert_from(np_insert_axis0(x_single, position, zero_row),
                             np_insert_axis1(rows, position, zero_block),
                             gapped_positions, k + 1)

backinsert_gapped_positions(x_single, x_pair, gapped_positions) ==
    backinsert_from(x_single, x_pair, gapped_positions, 1)

\* remove_gapped_positions(msa, max_gap_percentage)
RemoveGappedPositions ==
    /\ pc = "start"
    /\ \E t \in {remove_gapped_positions(msa, pct)} :
          /\ trimmed' = t
          /\ out' = IF pct < 100
                    THEN Append(out, <<"Removed", Len(t.gapped_positions), pct>>)
                    ELSE out
    /\ pc' = "removed"
    /\ UNCHANGED <<err, pllVars, layVars, ccm, req, cd, ret, pct, back>>

\* parameters over the columns that were kept: the cell (k, a) and the cell
\* (k, l, a, b) carry numbers that name the columns kept[k], kept[l] of the
\* untrimmed alignment
label_single(i, a) == (i + 1) * 100 + a + 1

label_pair(i, j, a, b) == ((i + 1) * 10 + (j + 1)) * 1000 + a * NStates + b + 1

kept_parameters(kept) ==
    [x_single |-> [k \in 0..(Len(kept) - 1) |-> [a \in 0..(NAminoAcids - 1) |->
                      label_single(kept[k + 1], a)]],
     x_pair |-> [k \in 0..(Len(kept) - 1) |-> [l \in 0..(Len(kept) - 1) |->
                    [a \in 0..(NStates - 1) |-> [b \in 0..(NStates - 1) |->
                        label_pair(kept[k + 1], kept[l + 1], a, b)]]]]]

\* the columns of m that are not in gapped_positions, ascending
columns_without(ncol, gapped_positions) ==
    np_where([i \in 0..(ncol - 1) |->
                \A k \in 1..Len(gapped_positions) : gapped_positions[k] # i], ncol)

\* backinsert_gapped_positions(x_single, x_pair, gapped_positions) on the
\* parameters of the trimmed alignment
BackInsertGappedPositions ==
    /\ pc = "removed"
    /\ \E p \in {kept_parameters(columns_without(NCols(msa), trimmed.gapped_positions))} :
       \E r \in {backinsert_gapped_positions(p.x_single, p.x_pair, trimmed.gapped_positions)} :
          /\ err' = r.error
          /\ back' = [x_single |-> r.x_single, x_pair |-> r.x_pair]
          /\ pc' = IF r.error = "" THEN "inserted" ELSE "raised"
    /\ UNCHANGED <<pllVars, layVars, cdVars, pct, trimmed>>

\* an alignment whose column i holds gaps in its first gaps[i] rows and the
\* amino acid i below them
mk_gapped_msa(nrow, gaps) ==
    [n \in 0..(nrow - 1) |-> [i \in 0..(Len0(gaps) - 1) |->
        IF n < gaps[i] THEN GAP ELSE i % NAminoAcids]]

Percentages == {0, 25, 50, 100}

InitGaps ==
    /\ pc = "start"
    /\ err = ""
    /\ \E nrow \in 1..MaxGapRows, ncol \in 1..MaxGapCols :
          \E gaps \in [0..(ncol - 1) -> 0..nrow] :
              /\ msa = mk_gapped_msa(nrow, gaps)
              /\ weights = [n \in 0..(nrow - 1) |-> 1]
    /\ PllIdle /\ LayIdle /\ CdIdle
    /\ pct \in Percentages
    /\ trimmed = None
    /\ back = None

NextGaps == RemoveGappedPositions \/ BackInsertGappedPositions

SpecGaps == InitGaps /\ [][NextGaps]_vars

\* ------------------------------------------------------------ properties: gaps

\* the columns of the alignment with at least max_gap_percentage percent gaps
GappedColumns ==
    {i \in 0..(NCols(msa) - 1) :
        Cardinality({n \in 0..(NRows(msa) - 1) : msa[n][i] = 20}) * 100 >= pct * NRows(msa)}

\* the positions remove_gapped_positions returned, as a set
ReturnedPositions ==
    {trimmed.gapped_positions[k] : k \in 1..Len(trimmed.gapped_positions)}

\* C10: for max_gap_percentage < 100 the returned gapped positions are exactly
\* the columns whose gap count is >= max_gap_percentage/100 * N, the trimmed
\* alignment holds exactly the other columns in their order, and
\* backinsert_gapped_positions gives tensors of L columns with every kept
\* column's values at its original index and zeros at every gapped position;
\* for max_gap_percentage >= 100 the alignment comes back unchanged with an
\* empty position list.
GapRoundTrip ==
    LET L == NCols(msa)
        cols == 0..(L - 1)
        kept == cols \ GappedColumns
        rank(i) == Cardinality({j \in kept : j < i})
        gp == trimmed.gapped_positions
    IN  /\ pc # "raised"
        /\ pc \in {"removed", "inserted"} =>
              IF pct >= 100
              THEN trimmed.msa = msa /\ gp = <<>>
              ELSE /\ ReturnedPositions = GappedColumns
                   /\ \A k \in 1..(Len(gp) - 1) : gp[k] < gp[k + 1]
                   /\ \A n \in 0..(NRows(msa) - 1) :
                         /\ Len0(trimmed.msa[n]) = Cardinality(kept)
                         /\ \A i \in kept : trimmed.msa[n][rank(i)] = msa[n][i]
        /\ pc = "inserted" =>
              /\ Len0(back.x_single) = L
              /\ Len0(back.x_pair) = L
              /\ \A i \in cols :
                    /\ Len0(back.x_pair[i]) = L
                    /\ IF i \in ReturnedPositions
                       THEN /\ back.x_single[i] = zero_row
                            /\ \A j \in cols : /\ back.x_pair[i][j] = zero_block
                                               /\ back.x_pair[j][i] = zero_block
                       ELSE /\ \A a \in 0..19 : back.x_single[i][a] = label_single(i, a)
                            /\ \A j \in cols \ ReturnedPositions :
                                  \A a \in 0..20 : \A b \in 0..20 :
                                      back.x_pair[i][j][a][b] = label_pair(i, j, a, b)

\* the middle one of three columns was removed and inserted back
GapRoundTripWitness ==
    /\ pc = "inserted"
    /\ NCols(msa) = 3
    /\ trimmed.gapped_positions = <<1>>
    /\ back.x_single[1] = zero_row
    /\ back.x_single[2][0] = label_single(2, 0)

\* ------------------------------------------------ cd: ContrastiveDivergence

Max(a, b) == IF a >= b THEN a ELSE b

Abs(a) == IF a >= 0 THEN a ELSE 0 - a

\* ccmpred.parameter_handling.structured_to_linear(x_single, x_pair,
\* nogapstate=True, padding=False): the L*20 single cells followed by the
\* L*L*21*21 pair cells
ph_structured_to_linear(x_single, x_pair) ==
    LET ncol == Len0(x_single)
        nsingle == ncol * NAminoAcids
        flat_single == ravel2(x_single)
        flat_pair == ravel4(x_pair)
    IN  [k \in 0..(nsingle + ncol * ncol * NStates * NStates - 1) |->
            IF k < nsingle THEN flat_single[k] ELSE flat_pair[k - nsingle]]

\* ccm.pseudocounts.freqs of the scenarios: positive everywhere, the gap state
\* and the diagonal included
ccm_freqs_single(c) ==
    [i \in 0..(c.ncol - 1) |-> [a \in 0..(NStates - 1) |-> 1 + ((i + a) % 3)]]

ccm_freqs_pair(c) ==
    [i \in 0..(c.ncol - 1) |-> [j \in 0..(c.ncol - 1) |->
        [a \in 0..(NStates - 1) |-> [b \in 0..(NStates - 1) |->
            1 + ((i + 2 * j + a + b) % 3)]]]]

\* t[:, 20] = 0
zero_gap_single(t) ==
    [i \in DOMAIN t |-> [a \in DOMAIN t[i] |-> IF a = GAP THEN 0 ELSE t[i][a]]]

\* t[:, :, :, 20] = 0; t[:, :, 20, :] = 0
zero_gap_pair(t) ==
    [i \in DOMAIN t |-> [j \in DOMAIN t[i] |-> [a \in DOMAIN t[i][j] |->
        [b \in DOMAIN t[i][j][a] |->
            IF a = GAP \/ b = GAP THEN 0 ELSE t[i][j][a][b]]]]]

\* for i in range(ncol - 1): t[i, i, :, :] = 0
zero_diagonal_but_last(t, ncol) ==
    [i \in DOMAIN t |-> [j \in DOMAIN t[i] |-> [a \in DOMAIN t[i][j] |->
        [b \in DOMAIN t[i][j][a] |->
            IF i = j /\ i < ncol - 1 THEN 0 ELSE t[i][j][a][b]]]]]

\* for i in range(ncol): t[i, i, :, :] = 0
zero_diagonal(t, ncol) ==
    [i \in DOMAIN t |-> [j \in DOMAIN t[i] |-> [a \in DOMAIN t[i][j] |->
        [b \in DOMAIN t[i][j][a] |->
            IF i = j /\ i < ncol THEN 0 ELSE t[i][j][a][b]]]]]

\* freqs_single * neff and freqs_pair * neff
times_neff_single(t, neff) ==
    [i \in DOMAIN t |-> [a \in DOMAIN t[i] |-> t[i][a] * neff]]

times_neff_pair(t, neff) ==
    [i \in DOMAIN t |-> [j \in DOMAIN t[i] |-> [a \in DOMAIN t[i][j] |->
        [b \in DOMAIN t[i][j][a] |-> t[i][j][a][b] * neff]]]]

\* np.max([gibbs_steps, 0])
clamp_gibbs_steps_to_zero(gibbs_steps) == Max(gibbs_steps, 0)

\* np.max([gibbs_steps, 1])
clamp_gibbs_steps(gibbs_steps) == Max(gibbs_steps, 1)

\* nr_seq_sample of __init__; sample_size is given in halves, so
\* int(sample_size * n) is (sample_size * n) \div 2
nr_seq_sample_of(sample_size, sample_ref, nrow, ncol, neff) ==
    IF sample_size > 0
    THEN IF sample_ref = "L"
         THEN IF (sample_size * ncol) \div 2 > nrow
              THEN nrow
              ELSE (sample_size * ncol) \div 2
         ELSE Max(MinNeffSample, (sample_size * neff) \div 2)
    ELSE nrow

\* ContrastiveDivergence.__init__(ccm, gibbs_steps, sample_size, sample_ref):
\* the fields of the new instance
cd_new(c, r) ==
    LET ncol == c.ncol
        msa_counts_single ==
            zero_gap_single(times_neff_single(ccm_freqs_single(c), c.neff))
        msa_counts_pair ==
            zero_gap_pair(times_neff_pair(ccm_freqs_pair(c), c.neff))
    IN  [nrow |-> c.nrow, ncol |-> ncol, neff |-> c.neff,
         x |-> ph_structured_to_linear(
                   [i \in 0..(ncol - 1) |-> [a \in 0..(NAminoAcids - 1) |-> 0]],
                   [i \in 0..(ncol - 1) |-> [j \in 0..(ncol - 1) |-> zero_block]]),
         nsingle |-> ncol * NAminoAcids,
         npair |-> ncol * ncol * NStates * NStates,
         nvar |-> ncol * NAminoAcids + ncol * ncol * NStates * NStates,
         gibbs_steps |-> clamp_gibbs_steps(r.gibbs_steps),
         msa_counts_single |-> msa_counts_single,
         msa_counts_pair |-> msa_counts_pair,
         Ni |-> [i \in 0..(ncol - 1) |-> SumTo(msa_counts_single[i], NStates)],
         Nij |-> [i \in 0..(ncol - 1) |-> [j \in 0..(ncol - 1) |->
                    SumTo([a \in 0..(NStates - 1) |->
                              SumTo(msa_counts_pair[i][j][a], NStates)], NStates)]],
         sample_size |-> r.sample_size,
         sample_ref |-> r.sample_ref,
         nr_seq_sample |-> nr_seq_sample_of(r.sample_size, r.sample_ref,
                                            c.nrow, ncol, c.neff),
         sample_seq_id |-> None,
         msa_sampled |-> None]

\* ContrastiveDivergence(ccm, gibbs_steps, sample_size, sample_ref)
NewContrastiveDivergence ==
    /\ pc = "start"
    /\ \E o \in {cd_new(ccm, req)} : cd' = o
    /\ pc' = "constructed"
    /\ UNCHANGED <<err, pllVars, layVars, gapVars, ccm, req, ret, out>>

\* What the Gibbs sampler and PseudoCounts leave of a call of evaluate: the
\* frequencies of the sampled alignment after degap.  In column i all the
\* amino-acid mass sits on one amino acid; it sums to 1, or to 2 in the column
\* dev (no column when dev = -1).  Gap and diagonal cells are not zero.
sampled_freq_single(dev, ncol) ==
    [i \in 0..(ncol - 1) |-> [a \in 0..(NStates - 1) |->
        IF a = (3 * i + 1) % NAminoAcids THEN (IF i = dev THEN 2 ELSE 1)
        ELSE IF a = GAP THEN 1 ELSE 0]]

sampled_freq_pair(dev, ncol) ==
    [i \in 0..(ncol - 1) |-> [j \in 0..(ncol - 1) |->
        [a \in 0..(NStates - 1) |-> [b \in 0..(NStates - 1) |->
            1 + ((i + j + 2 * a + b + dev + 1) % 2)]]]]

\* sampled_freq_single * Ni[:, np.newaxis]
sample_counts_single_of(freq, Ni) ==
    [i \in DOMAIN freq |-> [a \in DOMAIN freq[i] |-> freq[i][a] * Ni[i]]]

\* sampled_freq_pair * Nij[:, :, np.newaxis, np.newaxis]
sample_counts_pair_of(freq, Nij) ==
    [i \in DOMAIN freq |-> [j \in DOMAIN freq[i] |-> [a \in DOMAIN freq[i][j] |->
        [b \in DOMAIN freq[i][j][a] |-> freq[i][j][a][b] * Nij[i][j]]]]]

minus_single(s, m) ==
    [i \in DOMAIN s |-> [a \in DOMAIN s[i] |-> s[i][a] - m[i][a]]]

minus_pair(s, m) ==
    [i \in DOMAIN s |-> [j \in DOMAIN s[i] |-> [a \in DOMAIN s[i][j] |->
        [b \in DOMAIN s[i][j][a] |-> s[i][j][a][b] - m[i][j][a][b]]]]]

\* np.sum(t[i, :20])
sum_amino_acids(t, i) == SumTo(t[i], NAminoAcids)

\* np.abs(d) > 1e-5 for a whole number d
exceeds_tolerance(d) == Abs(d) * 100000 > 1

\* the column whose counts the sanity check of evaluate reads
sanity_column == 1

\* t[:, :20]
first_twenty(t) == [i \in DOMAIN t |-> [a \in 0..(NAminoAcids - 1) |-> t[i][a]]]

\* the gradient of evaluate from the sampled frequencies on
cd_gradient(o, dev) ==
    LET sample_counts_single ==
            sample_counts_single_of(sampled_freq_single(dev, o.ncol), o.Ni)
        sample_counts_pair ==
            sample_counts_pair_of(sampled_freq_pair(dev, o.ncol), o.Nij)
        g_single == zero_gap_single(minus_single(sample_counts_single, o.msa_counts_single))
        g_pair == zero_diagonal(
                      zero_gap_pair(minus_pair(sample_counts_pair, o.msa_counts_pair)),
                      o.ncol)
    IN  ph_structured_to_linear(first_twenty(g_single), g_pair)

\* the lines the sanity check prints
sanity_lines(o, dev) ==
    LET sample_counts_single ==
            sample_counts_single_of(sampled_freq_single(dev, o.ncol), o.Ni)
        sampled == sum_amino_acids(sample_counts_single, sanity_column)
        counted == sum_amino_acids(o.msa_counts_single, sanity_column)
    IN  IF exceeds_tolerance(sampled - counted)
        THEN <<<<"Warning", sampled, counted>>>>
        ELSE <<>>

\* ContrastiveDivergence.evaluate(x), once per instance: a call reads nothing
\* that an earlier call wrote.  np.random.choice(nrow, k, replace=False) raises
\* ValueError for k > nrow and otherwise returns k distinct rows, kept here as
\* a set; sample_counts_single[1, :20] raises IndexError without a column 1.
Evaluate ==
    /\ pc = "constructed"
    /\ IF cd.nr_seq_sample > cd.nrow
       THEN /\ err' = "ValueError"
            /\ pc' = "raised"
            /\ UNCHANGED <<cd, ret, out>>
       ELSE \E ids \in {S \in SUBSET (0..(cd.nrow - 1)) : Cardinality(S) = cd.nr_seq_sample},
               dev \in (0 - 1)..(cd.ncol - 1) :
               /\ cd' = [cd EXCEPT !.sample_seq_id = ids, !.msa_sampled = [dev |-> dev]]
               /\ IF sanity_column >= cd.ncol
                  THEN /\ err' = "IndexError"
                       /\ pc' = "raised"
                       /\ out' = <<<<"gibbs_sample_sequences", cd.gibbs_steps>>>>
                       /\ UNCHANGED ret
                  ELSE \E g \in {cd_gradient(cd, dev)} :
                       /\ err' = ""
                       /\ pc' = "evaluated"
                       /\ out' = <<<<"gibbs_sample_sequences", cd.gibbs_steps>>>>
                                   \o sanity_lines(cd, dev)
                       /\ ret' = [value |-> 0 - 1, g |-> g,
                                  g_reg |-> "structured_to_linear(regularization(x))"]
    /\ UNCHANGED <<pllVars, layVars, gapVars, ccm, req>>

\* the scenarios of the contrastive-divergence part
SampleSizes == {0, 1, 3}

InitCd ==
    /\ pc = "start"
    /\ err = ""
    /\ \E nrow \in 1..MaxCdRows, ncol \in 1..MaxCdCols :
          /\ msa = mk_msa(nrow, [i \in 0..(ncol - 1) |-> 0], 1)
          /\ weights = [n \in 0..(nrow - 1) |-> 1]
          /\ ccm \in {[nrow |-> nrow, ncol |-> ncol, neff |-> neff] :
                        neff \in {nrow, (nrow + 1) \div 2}}
    /\ req \in [gibbs_steps : (0 - 1)..MaxGibbs, sample_size : SampleSizes,
                sample_ref : {"L", "Neff"}]
    /\ cd = None /\ ret = None /\ out = <<>>
    /\ PllIdle /\ LayIdle /\ GapIdle

NextCd == NewContrastiveDivergence \/ Evaluate

SpecCd == InitCd /\ [][NextCd]_vars

\* -------------------------------------------------------------- properties: cd

\* C3: the gradient evaluate returns has no single entry for the gap state
\* (L*20 single cells, then the L*L*21*21 pair cells) and is exactly 0 at every
\* pair cell whose symbol a or b is the gap state and at every cell of a
\* diagonal block (i, i).
GradientZeroInvariants ==
    pc = "evaluated" =>
        LET L == cd.ncol
        IN  /\ ret.value = 0 - 1
            /\ Len0(ret.g) = L * 20 + L * L * 21 * 21
            /\ \A i \in 0..(L - 1) : \A j \in 0..(L - 1) :
                  \A a \in 0..20 : \A b \in 0..20 :
                      (a = 20 \/ b = 20 \/ i = j) =>
                          ret.g[L * 20 + ((i * L + j) * 21 + a) * 21 + b] = 0

\* evaluate has returned a gradient that is not zero off the diagonal
GradientZeroInvariantsWitness ==
    /\ pc = "evaluated"
    /\ ret.g[0] # 0
    /\ ret.g[cd.ncol * 20 + ((0 * cd.ncol + 1) * 21 + 0) * 21 + 0] # 0
    /\ ret.g[cd.ncol * 20 + ((1 * cd.ncol + 1) * 21 + 20) * 21 + 20] = 0

\* C4: the stored nr_seq_sample never exceeds nrow, and init_sample_alignment
\* draws nr_seq_sample pairwise-distinct rows in every evaluate call.
SampleSizeClamped ==
    pc # "start" =>
        /\ cd.nr_seq_sample <= cd.nrow
        /\ err # "ValueError"
        /\ pc = "evaluated" =>
              /\ cd.sample_seq_id \subseteq 0..(cd.nrow - 1)
              /\ Cardinality(cd.sample_seq_id) = cd.nr_seq_sample

\* whether the sampled amino-acid count of column i is off the empirical one
\* by more than 1e-5
ColumnDeviates(i) ==
    LET sampled == SumTo([a \in 0..19 |->
                            sampled_freq_single(cd.msa_sampled.dev, cd.ncol)[i][a] * cd.Ni[i]],
                         20)
        counted == SumTo(cd.msa_counts_single[i], 20)
    IN  (sampled - counted) * 100000 > 1 \/ (counted - sampled) * 100000 > 1

\* C5: the sanity check warns about every column whose sampled amino-acid
\* count is off the empirical one beyond the tolerance, and it never ends the
\* call: evaluate does not raise in the check.
SanityCheckCoversEveryColumn ==
    pc \in {"evaluated", "raised"} =>
        /\ err # "IndexError"
        /\ pc = "evaluated" =>
              \A i \in 0..(cd.ncol - 1) :
                  ColumnDeviates(i) => \E k \in 1..Len(out) : out[k][1] = "Warning"

\* C7: the instance stores max(requested gibbs_steps, 1), which is >= 1, and
\* evaluate passes exactly the stored value to the Gibbs sampler.
GibbsStepsAtLeastOne ==
    pc # "start" =>
        /\ cd.gibbs_steps >= 1
        /\ cd.gibbs_steps = IF req.gibbs_steps >= 1 THEN req.gibbs_steps ELSE 1
        /\ pc = "evaluated" => Len(out) >= 1
        /\ Len(out) >= 1 => out[1] = <<"gibbs_sample_sequences", cd.gibbs_steps>>

\* evaluate has run the sampler for an instance that was asked for 0 sweeps
GibbsStepsAtLeastOneWitness ==
    /\ pc = "evaluated"
    /\ req.gibbs_steps = 0
    /\ out[1] = <<"gibbs_sample_sequences", 1>>

====
